---- MODULE Spec2Model ----
(***************************************************************************)
(* Model of the httptines dispatch engine: the target queue of Worker,    *)
(* the proxy entries (Server), the per-proxy worker handleServer, the      *)
(* per-target task processTarget, the statistics owner updateStat, the     *)
(* lifecycle manager fetchAndCheck and the dispatcher loop of Worker.Run.  *)
(***************************************************************************)
EXTENDS Naturals, Integers, Sequences, FiniteSets, TLC

\* ---------------------------------------------------------------- bounds
NumTargets == 2      \* len(targets) handed to Run
NumServers == 2      \* alive proxies the lifecycle manager ever publishes
MaxCap     == 2      \* largest capacity a probe computes
MaxFail    == 5      \* failures the environment injects per proxy
Workers    == 1      \* the Workers option: buffer of srvCh
MaxCeil    == 3      \* most concurrent probe requests a proxy sustains

Targets == 1..NumTargets
Servers == 1..NumServers

\* the values of the Strategy option: "minimal", and anything else is auto
Strategies == {"minimal", "auto"}

\* ------------------------------------------------------------ program state
VARIABLES
    targets,      \* Worker.targets: the queue of target URLs
    srvCh,        \* Worker.srvCh: buffered channel content
    srvChClosed,  \* srvCh has been closed
    oDone,        \* Worker.o (sync.Once) has fired
    probed,       \* number of Server entries created by checkProxies
    srv,          \* the Server entries
    hs,           \* handleServer goroutines: pc and the shifted batch
    tasks,        \* processTarget goroutines, per server
    us,           \* updateStat goroutine: pc and the received value
    timestamps,   \* Stat.timestamps
    statServers,  \* Stat.Servers
    now,          \* clock read by time.Now()
    handled,      \* calls of the user handler, per target
    outcomes,     \* the results passed to finish(), most recent last (<= 5)
    runPc,        \* Worker.Run: "range" or "returned"
    panicked,     \* a goroutine has panicked (send on closed channel)
    good,         \* the proxy whose requests never fail (0: none)
    strategy,     \* Worker.Strategy
    boot,         \* the start of Worker.Run: options, position, goroutines
    fc,           \* fetchAndCheck taken alone: one probe cycle after another
    qx,           \* the target queue taken alone: shift and retrigger
    bc,           \* sendStatistics, updateStat and the broadcast channel
    lb,           \* pkg/wlpb: concurrent Balancer.Request calls
    mg            \* pkg/wlpb: probe cycles of the balancer and merge

\* the variables of the parts that are studied on their own
more == <<bc, lb, mg>>

side == <<boot, fc, qx, more>>

vars == <<targets, srvCh, srvChClosed, oDone, probed, srv, hs, tasks, us,
          timestamps, statServers, now, handled, outcomes, runPc, panicked,
          good, strategy, side>>

NoSm == [url |-> 0, disabled |-> 0, requests |-> 0, positive |-> 0,
         negative |-> 0]

\* ------------------------------------------------------------ Server
\* The Server literal of checkProxies sets URL and timeout only: every other
\* field has Go's zero value, the ring l5 included (five times false).  The
\* probes of computeCapacity call request() directly, not start()/finish().
NewServer(c) ==
    [Disabled |-> 0, Capacity |-> c, Requests |-> 0, Positive |-> 0,
     Negative |-> 0, l5 |-> <<FALSE, FALSE, FALSE, FALSE, FALSE>>,
     l5i |-> 0, cancelled |-> FALSE]

toMap(s, sv) ==
    [url |-> s, disabled |-> sv.Disabled, requests |-> sv.Requests,
     positive |-> sv.Positive, negative |-> sv.Negative]

start(sv) == [sv EXCEPT !.Requests = @ + 1]

fiveFailInRow(sv) == \A i \in 1..5 : ~sv.l5[i]

\* mutant of disable: the context is cancelled but the flag is not set
disableCancelOnly(sv) == [sv EXCEPT !.cancelled = TRUE]

\* atomic.AddUint32(&s.Disabled, 1); s.cancel().  The counter is a uint32; it
\* is raised once per finish() that sees the ring all false, which after the
\* first disable happens only for the few tasks still running, far from 2^32.
disable(sv) == [sv EXCEPT !.Disabled = @ + 1, !.cancelled = TRUE]

\* mutant of finish: a failure is counted as a success as well
finishCountsBoth(sv, err) ==
    LET a == [sv EXCEPT !.Requests = @ - 1,
                        !.Positive = @ + 1,
                        !.Negative = IF err THEN @ + 1 ELSE @,
                        !.l5 = [@ EXCEPT ![sv.l5i + 1] = ~err],
                        !.l5i = IF sv.l5i = 4 THEN 0 ELSE sv.l5i + 1]
    IN  IF fiveFailInRow(a) THEN disable(a) ELSE a

finish(sv, err) ==
    LET a == [sv EXCEPT !.Requests = @ - 1,
                        !.Positive = IF err THEN @ ELSE @ + 1,
                        !.Negative = IF err THEN @ + 1 ELSE @,
                        !.l5 = [@ EXCEPT ![sv.l5i + 1] = ~err],
                        !.l5i = IF sv.l5i = 4 THEN 0 ELSE sv.l5i + 1]
    IN  IF fiveFailInRow(a) THEN disable(a) ELSE a

\* minimalCapacity: one probe GET; Capacity becomes 1 when it succeeds and
\* keeps its zero value otherwise.  m is the number of concurrent requests the
\* proxy sustains: a round of k concurrent probes has a failure iff k > m.
minimalCapacity(m) == IF m >= 1 THEN 1 ELSE 0

\* mutant of autoRounds: the result is the last round that passed
RECURSIVE autoRoundsLastPassed(_, _)
autoRoundsLastPassed(capacity, m) ==
    IF capacity > m
    THEN capacity - 1
    ELSE autoRoundsLastPassed(capacity + 1, m)

\* the loop of autoAdjustCapacity from the round of `capacity` probes on
RECURSIVE autoRounds(_, _)
autoRounds(capacity, m) ==
    IF capacity > m
    THEN IF capacity = 1 THEN 0 ELSE capacity
    ELSE autoRounds(capacity + 1, m)

autoAdjustCapacity(m) == autoRounds(1, m)

computeCapacity(strat, m) ==
    IF strat = "minimal" THEN minimalCapacity(m) ELSE autoAdjustCapacity(m)

\* ------------------------------------------------------------ target queue
FirstN(q, n) == SubSeq(q, 1, n)

\* mutant of shift: a queue taken whole is not emptied
shiftLeavesAll(q, n) ==
    IF Len(q) <= n
    THEN [items |-> q, rest |-> q]
    ELSE [items |-> FirstN(q, n), rest |-> SubSeq(q, n + 1, Len(q))]

\* mutant of shift: the rest is cut one item too far
shiftOffByOne(q, n) ==
    IF Len(q) <= n
    THEN [items |-> q, rest |-> <<>>]
    ELSE [items |-> FirstN(q, n), rest |-> SubSeq(q, n + 2, Len(q))]

shift(q, n) ==
    IF Len(q) <= n
    THEN [items |-> q, rest |-> <<>>]
    ELSE [items |-> FirstN(q, n), rest |-> SubSeq(q, n + 1, Len(q))]

\* mutant of retrigger: the target is put before the last queued item
retriggerBeforeLast(q, u) ==
    IF q = <<>> THEN <<u>>
    ELSE SubSeq(q, 1, Len(q) - 1) \o <<u, q[Len(q)]>>

\* mutant of retrigger: the target is put at the front
retriggerFront(q, u) == <<u>> \o q

\* mutant of retrigger: the failed target is not put back
retriggerDrop(q, u) == q

retrigger(q, u) == Append(q, u)

\* Stat.addServer, run by updateStat for a snapshot received on stsCh
addServer(servers, d) == [servers EXCEPT ![d.url] = d]

\* mutant of allTargetsProcessed: off by one
allTargetsProcessedOffByOne == Len(timestamps) + 1 >= NumTargets

allTargetsProcessed == Len(timestamps) = NumTargets

\* time.Minute in the clock's unit (one tick of now is one second)
Minute == 60

\* the loop of Stat.rpm: from index i down to 1, stop at the first sample
\* older than lastMinute
RECURSIVE rpmFrom(_, _, _)
rpmFrom(ts, i, lastMinute) ==
    IF i = 0 THEN 0
    ELSE IF ts[i] < lastMinute THEN 0
    ELSE 1 + rpmFrom(ts, i - 1, lastMinute)

\* Stat.rpm called at instant n
rpm(ts, n) == rpmFrom(ts, Len(ts), n - Minute)

\* ------------------------------------------------------------ Init
InitEngine ==
    /\ targets = [i \in 1..NumTargets |-> i]
    /\ srvCh = <<>>
    /\ srvChClosed = FALSE
    /\ oDone = FALSE
    /\ probed = 0
    /\ srv = [s \in Servers |-> NewServer(0)]
    /\ hs = [s \in Servers |-> [pc |-> "none", batch |-> <<>>]]
    /\ tasks = [s \in Servers |-> {}]
    /\ us = [pc |-> "select", ts |-> 0]
    /\ timestamps = <<>>
    /\ statServers = [s \in Servers |-> NoSm]
    /\ now = 1
    /\ handled = [t \in Targets |-> 0]
    /\ outcomes = [s \in Servers |-> <<>>]
    /\ runPc = "range"
    /\ panicked = FALSE

\* the parts studied on their own are at rest while the engine runs
Idle == [pc |-> "idle"]

MoreIdle == bc = Idle /\ lb = Idle /\ mg = Idle

SideIdle == boot = Idle /\ fc = Idle /\ qx = Idle /\ MoreIdle

\* no assumption on the proxies: any request may fail
Init == InitEngine /\ good = 0 /\ strategy \in Strategies /\ SideIdle

\* one of the proxies is reliable
GoodInit == InitEngine /\ good \in Servers /\ strategy \in Strategies /\ SideIdle

\* ------------------------------------------------------------ helpers
TaskAt(t, pc) == [t |-> t, pc |-> pc, err |-> FALSE, sm |-> NoSm, ts |-> 0]

Replace(s, k, k2) == [tasks EXCEPT ![s] = (@ \ {k}) \cup {k2}]

Release(s, k) == [tasks EXCEPT ![s] = @ \ {k}]

LastFive(o) == IF Len(o) <= 5 THEN o ELSE SubSeq(o, Len(o) - 4, Len(o))

\* ------------------------------------------------------------ fetchAndCheck
\* checkProxies builds a Server whose capacity c > 0 is what computeCapacity
\* makes of the proxy under the strategy, and fetchAndCheck sends it on srvCh;
\* a send on the closed channel panics.
Publish(c) ==
    /\ ~panicked
    /\ probed < NumServers
    /\ \E m \in 0..MaxCeil : computeCapacity(strategy, m) = c
    /\ IF srvChClosed
       THEN /\ panicked' = TRUE
            /\ UNCHANGED <<probed, srv, srvCh>>
       ELSE /\ Len(srvCh) < Workers
            /\ probed' = probed + 1
            /\ srv' = [srv EXCEPT ![probed + 1] = NewServer(c)]
            /\ srvCh' = Append(srvCh, probed + 1)
            /\ UNCHANGED panicked
    /\ UNCHANGED <<targets, srvChClosed, oDone, hs, tasks, us, timestamps,
                   statServers, now, handled, outcomes, runPc, good, strategy, side>>

\* ------------------------------------------------------------ Worker.Run
RunRecv ==
    /\ ~panicked
    /\ runPc = "range"
    /\ srvCh # <<>>
    /\ srvCh' = Tail(srvCh)
    /\ hs' = [hs EXCEPT ![Head(srvCh)] = [pc |-> "check", batch |-> <<>>]]
    /\ UNCHANGED <<targets, srvChClosed, oDone, probed, srv, tasks, us,
                   timestamps, statServers, now, handled, outcomes, runPc,
                   panicked, good, strategy, side>>

RunReturn ==
    /\ ~panicked
    /\ runPc = "range"
    /\ srvCh = <<>>
    /\ srvChClosed
    /\ runPc' = "returned"
    /\ UNCHANGED <<targets, srvCh, srvChClosed, oDone, probed, srv, hs, tasks,
                   us, timestamps, statServers, now, handled, outcomes,
                   panicked, good, strategy, side>>

\* ------------------------------------------------------------ handleServer
\* mutant of HSCheck: the Disabled flag is not looked at
HSCheckIgnoresDisabled(s) ==
    /\ ~panicked
    /\ hs[s].pc = "check"
    /\ hs' = [hs EXCEPT ![s].pc = "shift"]
    /\ UNCHANGED <<targets, srvCh, srvChClosed, oDone, probed, srv, tasks, us,
                   timestamps, statServers, now, handled, outcomes, runPc,
                   panicked, good, strategy, side>>

HSCheck(s) ==
    /\ ~panicked
    /\ hs[s].pc = "check"
    /\ hs' = [hs EXCEPT ![s].pc = IF srv[s].Disabled > 0 THEN "done" ELSE "shift"]
    /\ UNCHANGED <<targets, srvCh, srvChClosed, oDone, probed, srv, tasks, us,
                   timestamps, statServers, now, handled, outcomes, runPc,
                   panicked, good, strategy, side>>

HSShift(s) ==
    /\ ~panicked
    /\ hs[s].pc = "shift"
    /\ LET r == shift(targets, srv[s].Capacity) IN
         /\ targets' = r.rest
         /\ hs' = [hs EXCEPT ![s] =
                     IF Len(r.items) = 0
                     THEN [pc |-> "allproc", batch |-> <<>>]
                     ELSE [pc |-> "spawn", batch |-> r.items]]
    /\ UNCHANGED <<srvCh, srvChClosed, oDone, probed, srv, tasks, us,
                   timestamps, statServers, now, handled, outcomes, runPc,
                   panicked, good, strategy, side>>

\* mutant of HSAllProcessed: every worker that sees completion closes srvCh
\* itself, without the sync.Once; closing a closed channel panics
HSAllProcessedNoOnce(s) ==
    /\ ~panicked
    /\ hs[s].pc = "allproc"
    /\ IF allTargetsProcessed
       THEN /\ IF srvChClosed
               THEN panicked' = TRUE /\ UNCHANGED srvChClosed
               ELSE srvChClosed' = TRUE /\ UNCHANGED panicked
            /\ hs' = [hs EXCEPT ![s].pc = "done"]
       ELSE /\ hs' = [hs EXCEPT ![s].pc = "check"]
            /\ UNCHANGED <<srvChClosed, panicked>>
    /\ UNCHANGED <<targets, srvCh, oDone, probed, srv, tasks, us, timestamps,
                   statServers, now, handled, outcomes, runPc, good, strategy,
                   side>>

\* mutant of HSAllProcessed: an empty batch ends the worker
HSAllProcessedLeaves(s) ==
    /\ ~panicked
    /\ hs[s].pc = "allproc"
    /\ IF allTargetsProcessed
       THEN /\ oDone' = TRUE
            /\ srvChClosed' = (srvChClosed \/ ~oDone)
       ELSE UNCHANGED <<oDone, srvChClosed>>
    /\ hs' = [hs EXCEPT ![s].pc = "done"]
    /\ UNCHANGED <<targets, srvCh, probed, srv, tasks, us, timestamps,
                   statServers, now, handled, outcomes, runPc, panicked, good, strategy, side>>

\* the empty-batch branch: close srvCh once on completion, else sleep and loop
HSAllProcessed(s) ==
    /\ ~panicked
    /\ hs[s].pc = "allproc"
    /\ IF allTargetsProcessed
       THEN /\ oDone' = TRUE
            /\ srvChClosed' = (srvChClosed \/ ~oDone)
            /\ hs' = [hs EXCEPT ![s].pc = "done"]
       ELSE /\ hs' = [hs EXCEPT ![s].pc = "check"]
            /\ UNCHANGED <<oDone, srvChClosed>>
    /\ UNCHANGED <<targets, srvCh, probed, srv, tasks, us, timestamps,
                   statServers, now, handled, outcomes, runPc, panicked, good, strategy, side>>

\* mutant of HSSpawn: the task is started without a slot of qu
HSSpawnNoSlot(s) ==
    /\ ~panicked
    /\ hs[s].pc = "spawn"
    /\ tasks' = [tasks EXCEPT ![s] = @ \cup {TaskAt(Head(hs[s].batch), "start")}]
    /\ hs' = [hs EXCEPT ![s] =
                [pc |-> IF Len(hs[s].batch) = 1 THEN "check" ELSE "spawn",
                 batch |-> Tail(hs[s].batch)]]
    /\ UNCHANGED <<targets, srvCh, srvChClosed, oDone, probed, srv, us,
                   timestamps, statServers, now, handled, outcomes, runPc,
                   panicked, good, strategy, side>>

\* qu <- struct{}{} ; go processTarget(w, t, s, qu, handler)
HSSpawn(s) ==
    /\ ~panicked
    /\ hs[s].pc = "spawn"
    /\ Cardinality(tasks[s]) < srv[s].Capacity
    /\ tasks' = [tasks EXCEPT ![s] = @ \cup {TaskAt(Head(hs[s].batch), "start")}]
    /\ hs' = [hs EXCEPT ![s] =
                [pc |-> IF Len(hs[s].batch) = 1 THEN "check" ELSE "spawn",
                 batch |-> Tail(hs[s].batch)]]
    /\ UNCHANGED <<targets, srvCh, srvChClosed, oDone, probed, srv, us,
                   timestamps, statServers, now, handled, outcomes, runPc,
                   panicked, good, strategy, side>>

\* ------------------------------------------------------------ processTarget
PTStart(s, k) ==
    /\ ~panicked
    /\ k \in tasks[s]
    /\ k.pc = "start"
    /\ LET sv == start(srv[s])
           sm == toMap(s, sv) IN
         /\ srv' = [srv EXCEPT ![s] = sv]
         /\ tasks' = Replace(s, k,
               IF sm.disabled = 0
               THEN [k EXCEPT !.pc = "send1", !.sm = sm]
               ELSE [k EXCEPT !.pc = "req"])
    /\ UNCHANGED <<targets, srvCh, srvChClosed, oDone, probed, hs, us,
                   timestamps, statServers, now, handled, outcomes, runPc,
                   panicked, good, strategy, side>>

\* w.stsCh <- sm after start(): a rendezvous with updateStat's select, which
\* then runs addServer(d).  Nothing but updateStat touches Stat.Servers, so
\* the receive and addServer are one step.
PTSendStart(s, k) ==
    /\ ~panicked
    /\ k \in tasks[s]
    /\ k.pc = "send1"
    /\ us.pc = "select"
    /\ statServers' = addServer(statServers, k.sm)
    /\ tasks' = Replace(s, k, [k EXCEPT !.pc = "req", !.sm = NoSm])
    /\ UNCHANGED <<targets, srvCh, srvChClosed, oDone, probed, srv, hs, us,
                   timestamps, now, handled, outcomes, runPc, panicked, good, strategy, side>>

\* mutant of PTRequest: the request does not look at the context
PTRequestIgnoresCtx(s, k, err) ==
    /\ ~panicked
    /\ k \in tasks[s]
    /\ k.pc = "req"
    /\ err => s # good /\ srv[s].Negative < MaxFail
    /\ tasks' = Replace(s, k, [k EXCEPT !.pc = "finish", !.err = err])
    /\ UNCHANGED <<targets, srvCh, srvChClosed, oDone, probed, srv, hs, us,
                   timestamps, statServers, now, handled, outcomes, runPc,
                   panicked, good, strategy, side>>

\* request(s.ctx, t, s) returns: an error when the context is cancelled, else
\* what the proxy and the target make of it
PTRequest(s, k, err) ==
    /\ ~panicked
    /\ k \in tasks[s]
    /\ k.pc = "req"
    /\ IF err
       THEN srv[s].cancelled \/ (s # good /\ srv[s].Negative < MaxFail)
       ELSE ~srv[s].cancelled
    /\ tasks' = Replace(s, k, [k EXCEPT !.pc = "finish", !.err = err])
    /\ UNCHANGED <<targets, srvCh, srvChClosed, oDone, probed, srv, hs, us,
                   timestamps, statServers, now, handled, outcomes, runPc,
                   panicked, good, strategy, side>>

PTFinish(s, k) ==
    /\ ~panicked
    /\ k \in tasks[s]
    /\ k.pc = "finish"
    /\ LET sv == finish(srv[s], k.err) IN
         /\ srv' = [srv EXCEPT ![s] = sv]
         /\ tasks' = Replace(s, k,
               [k EXCEPT !.pc = IF k.err THEN "retrigger" ELSE "handler",
                         !.sm = toMap(s, sv)])
    /\ outcomes' = [outcomes EXCEPT ![s] = LastFive(Append(@, ~k.err))]
    /\ UNCHANGED <<targets, srvCh, srvChClosed, oDone, probed, hs, us,
                   timestamps, statServers, now, handled, runPc, panicked,
                   good, strategy, side>>

\* mutant of PTRetrigger: the completion time is sent on the failure path too
PTRetriggerStamps(s, k) ==
    /\ ~panicked
    /\ k \in tasks[s]
    /\ k.pc = "retrigger"
    /\ targets' = retrigger(targets, k.t)
    /\ now' = now + 1
    /\ tasks' = Replace(s, k, [k EXCEPT !.pc = "timsend", !.ts = now])
    /\ UNCHANGED <<srvCh, srvChClosed, oDone, probed, srv, hs, us, timestamps,
                   statServers, handled, outcomes, runPc, panicked, good, strategy, side>>

\* err != nil: w.retrigger(t), then the final snapshot unless disabled
PTRetrigger(s, k) ==
    /\ ~panicked
    /\ k \in tasks[s]
    /\ k.pc = "retrigger"
    /\ targets' = retrigger(targets, k.t)
    /\ tasks' = IF k.sm.disabled = 0
                THEN Replace(s, k, [k EXCEPT !.pc = "send2"])
                ELSE Release(s, k)
    /\ UNCHANGED <<srvCh, srvChClosed, oDone, probed, srv, hs, us, timestamps,
                   statServers, now, handled, outcomes, runPc, panicked, good, strategy, side>>

\* mutant of PTHandler: the target is pushed back after a delivery as well
PTHandlerRequeues(s, k) ==
    /\ ~panicked
    /\ k \in tasks[s]
    /\ k.pc = "handler"
    /\ handled' = [handled EXCEPT ![k.t] = @ + 1]
    /\ targets' = retrigger(targets, k.t)
    /\ now' = now + 1
    /\ tasks' = Replace(s, k, [k EXCEPT !.pc = "timsend", !.ts = now])
    /\ UNCHANGED <<srvCh, srvChClosed, oDone, probed, srv, hs, us,
                   timestamps, statServers, outcomes, runPc, panicked, good, strategy, side>>

\* err == nil: handler(body), then time.Now() is read for the send on timCh
PTHandler(s, k) ==
    /\ ~panicked
    /\ k \in tasks[s]
    /\ k.pc = "handler"
    /\ handled' = [handled EXCEPT ![k.t] = @ + 1]
    /\ now' = now + 1
    /\ tasks' = Replace(s, k, [k EXCEPT !.pc = "timsend", !.ts = now])
    /\ UNCHANGED <<targets, srvCh, srvChClosed, oDone, probed, srv, hs, us,
                   timestamps, statServers, outcomes, runPc, panicked, good, strategy, side>>

\* w.timCh <- time.Now(): a rendezvous with updateStat's select
PTSendTime(s, k) ==
    /\ ~panicked
    /\ k \in tasks[s]
    /\ k.pc = "timsend"
    /\ us.pc = "select"
    /\ us' = [pc |-> "addTimestamp", ts |-> k.ts]
    /\ tasks' = IF k.sm.disabled = 0
                THEN Replace(s, k, [k EXCEPT !.pc = "send2", !.ts = 0])
                ELSE Release(s, k)
    /\ UNCHANGED <<targets, srvCh, srvChClosed, oDone, probed, srv, hs,
                   timestamps, statServers, now, handled, outcomes, runPc,
                   panicked, good, strategy, side>>

\* w.stsCh <- sm after finish(), then the deferred <-q
PTSendFinish(s, k) ==
    /\ ~panicked
    /\ k \in tasks[s]
    /\ k.pc = "send2"
    /\ us.pc = "select"
    /\ statServers' = addServer(statServers, k.sm)
    /\ tasks' = Release(s, k)
    /\ UNCHANGED <<targets, srvCh, srvChClosed, oDone, probed, srv, hs, us,
                   timestamps, now, handled, outcomes, runPc, panicked, good, strategy, side>>

\* ------------------------------------------------------------ updateStat
USAddTimestamp ==
    /\ ~panicked
    /\ us.pc = "addTimestamp"
    /\ timestamps' = Append(timestamps, us.ts)
    /\ us' = [pc |-> "select", ts |-> 0]
    /\ UNCHANGED <<targets, srvCh, srvChClosed, oDone, probed, srv, hs, tasks,
                   statServers, now, handled, outcomes, runPc, panicked, good, strategy, side>>

\* ------------------------------------------------------------ specification
HandleServer(s) == HSCheck(s) \/ HSShift(s) \/ HSAllProcessed(s) \/ HSSpawn(s)

\* the processTarget goroutines of server s that hold target t
TasksOf(s, t) == {k \in tasks[s] : k.t = t}

ProcessTarget(s, t) ==
    \/ \E k \in TasksOf(s, t) : PTStart(s, k)
    \/ \E k \in TasksOf(s, t) : PTSendStart(s, k)
    \/ \E k \in TasksOf(s, t) : \E err \in BOOLEAN : PTRequest(s, k, err)
    \/ \E k \in TasksOf(s, t) : PTFinish(s, k)
    \/ \E k \in TasksOf(s, t) : PTRetrigger(s, k)
    \/ \E k \in TasksOf(s, t) : PTHandler(s, k)
    \/ \E k \in TasksOf(s, t) : PTSendTime(s, k)
    \/ \E k \in TasksOf(s, t) : PTSendFinish(s, k)

Progress ==
    \/ \E c \in 1..MaxCap : Publish(c)
    \/ RunRecv
    \/ RunReturn
    \/ \E s \in Servers, t \in Targets : ProcessTarget(s, t)
    \/ USAddTimestamp

Next == Progress \/ \E s \in Servers : HandleServer(s)

Spec == Init /\ [][Next]_vars

\* Every goroutine that can take a step eventually takes one.  The steps of
\* Progress are finitely many in a behaviour (failures are capped by MaxFail),
\* so weak fairness of Progress gives each of them its turn; the polling
\* loops of the handleServer goroutines need their own condition.
Fairness ==
    /\ WF_vars(Progress)
    /\ \A s \in Servers : WF_vars(HandleServer(s))

FairSpec == Init /\ [][Next]_vars /\ Fairness

GoodFairSpec == GoodInit /\ [][Next]_vars /\ Fairness


\* ------------------------------------------------------------ probe cycles
\* fetchAndCheck on its own: the listings answer as fc.links says, a proxy h
\* sustains fc.ceil[h] concurrent probe requests, Run receives from srvCh and a
\* handleServer goroutine may close srvCh at any time after it was started.
NumSources == 2      \* listing links in Worker.Sources
NumHosts   == 2      \* distinct host:port lines the listings contain
MaxLines   == 2      \* lines of one listing
MaxCycles  == 2      \* probe cycles of fetchAndCheck

Sources == 1..NumSources
Hosts   == 1..NumHosts

Bodies == UNION {[1..n -> Hosts] : n \in 0..MaxLines}

\* what http.Get(link) gives: an error, a status other than 200, or 200
Responses ==
    [status : {"err"}, body : {<<>>}] \cup [status : {"bad", "ok"}, body : Bodies]

\* the engine variables fetchAndCheck does not touch
engineRest == <<targets, probed, srv, hs, tasks, us, timestamps, statServers,
                now, handled, outcomes, runPc, good, strategy>>

\* mutant of fetchFrom: the first listing that fails ends the fetch
RECURSIVE fetchFromAbort(_, _)
fetchFromAbort(links, i) ==
    IF i > NumSources THEN <<>>
    ELSE IF links[i].status # "ok" THEN <<>>
    ELSE links[i].body \o fetchFromAbort(links, i + 1)

\* the loop over the links of fetchProxies from link i on: a link whose GET
\* fails or whose status is not 200 is logged and skipped (continue); every
\* line of a 200 body becomes an entry.  proxyMap is keyed by *url.URL, and
\* url.Parse returns a fresh pointer each time, so every line is an entry of
\* its own.
RECURSIVE fetchFrom(_, _)
fetchFrom(links, i) ==
    IF i > NumSources THEN <<>>
    ELSE IF links[i].status = "err" THEN fetchFrom(links, i + 1)
    ELSE IF links[i].status # "ok" THEN fetchFrom(links, i + 1)
    ELSE links[i].body \o fetchFrom(links, i + 1)

fetchProxies(links) == fetchFrom(links, 1)

LifecycleInit ==
    /\ InitEngine
    /\ good = 0
    /\ strategy \in Strategies
    /\ boot = Idle
    /\ qx = Idle
    /\ MoreIdle
    /\ fc \in [pc : {"fetch"}, cycle : {1}, links : [Sources -> Responses],
               ceil : [Hosts -> 0..MaxCeil], proxies : {<<>>}, count : {{}},
               alive : {<<>>}, sent : {<<>>},
               workers : {[h \in Hosts |-> 0]}]

\* proxies := fetchProxies(w.Sources)
FCFetch ==
    /\ ~panicked
    /\ fc.pc = "fetch"
    /\ fc' = [fc EXCEPT !.pc = "check", !.proxies = fetchProxies(fc.links),
                        !.count = {}, !.alive = <<>>, !.sent = <<>>]
    /\ UNCHANGED <<srvCh, srvChClosed, oDone, panicked, engineRest, boot, qx, more>>

\* mutant of FCProbe: the entry is kept whatever its capacity
FCProbeKeepsAll(i) ==
    /\ ~panicked
    /\ fc.pc = "check"
    /\ i \in DOMAIN fc.proxies
    /\ i \notin fc.count
    /\ LET u == fc.proxies[i]
           c == computeCapacity(strategy, fc.ceil[u]) IN
         fc' = [fc EXCEPT !.count = @ \cup {i},
                          !.alive = Append(@, [URL |-> u, Capacity |-> c])]
    /\ UNCHANGED <<srvCh, srvChClosed, oDone, panicked, engineRest, boot, qx, more>>

\* one goroutine of checkProxies: a fresh Server for entry i, computeCapacity,
\* appended to alive when Capacity > 0, then count is raised
FCProbe(i) ==
    /\ ~panicked
    /\ fc.pc = "check"
    /\ i \in DOMAIN fc.proxies
    /\ i \notin fc.count
    /\ LET u == fc.proxies[i]
           c == computeCapacity(strategy, fc.ceil[u]) IN
         fc' = [fc EXCEPT !.count = @ \cup {i},
                          !.alive = IF c > 0
                                    THEN Append(@, [URL |-> u, Capacity |-> c])
                                    ELSE @]
    /\ UNCHANGED <<srvCh, srvChClosed, oDone, panicked, engineRest, boot, qx, more>>

\* checkProxies returns: at once when there is nothing to check, else when
\* count has reached len(proxies)
FCChecked ==
    /\ ~panicked
    /\ fc.pc = "check"
    /\ Cardinality(fc.count) >= Len(fc.proxies)
    /\ fc' = [fc EXCEPT !.pc = "publish"]
    /\ UNCHANGED <<srvCh, srvChClosed, oDone, panicked, engineRest, boot, qx, more>>

\* w.srvCh <- s for the next alive proxy; on a closed srvCh the send panics
FCSend ==
    /\ ~panicked
    /\ fc.pc = "publish"
    /\ fc.alive # <<>>
    /\ IF srvChClosed
       THEN /\ fc' = [fc EXCEPT !.pc = "panic"]
            /\ UNCHANGED srvCh
       ELSE /\ Len(srvCh) < Workers
            /\ srvCh' = Append(srvCh, Head(fc.alive))
            /\ fc' = [fc EXCEPT !.alive = Tail(@),
                                !.sent = Append(@, Head(fc.alive))]
    /\ UNCHANGED <<srvChClosed, oDone, panicked, engineRest, boot, qx, more>>

\* the panic unwinds fetchAndCheck: its one deferred call is ticker.Stop(),
\* nothing calls recover(), so the panic leaves the goroutine and ends the
\* process
FCUnwind ==
    /\ ~panicked
    /\ fc.pc = "panic"
    /\ panicked' = TRUE
    /\ UNCHANGED <<srvCh, srvChClosed, oDone, fc, engineRest, boot, qx, more>>

\* <-ticker.C, then the next cycle
FCTick ==
    /\ ~panicked
    /\ fc.pc = "publish"
    /\ fc.alive = <<>>
    /\ fc.cycle < MaxCycles
    /\ fc' = [fc EXCEPT !.pc = "fetch", !.cycle = @ + 1]
    /\ UNCHANGED <<srvCh, srvChClosed, oDone, panicked, engineRest, boot, qx, more>>

\* Run: for s := range w.srvCh { go handleServer(w, s, handler) }
\* fc.workers[h] counts the handleServer goroutines started for proxy URL h
FCRunRecv ==
    /\ ~panicked
    /\ fc.pc # "idle"
    /\ srvCh # <<>>
    /\ srvCh' = Tail(srvCh)
    /\ fc' = [fc EXCEPT !.workers[Head(srvCh).URL] = @ + 1]
    /\ UNCHANGED <<srvChClosed, oDone, panicked, engineRest, boot, qx, more>>

\* a handleServer goroutine sees completion: w.o.Do(close(w.srvCh))
FCWorkerCloses ==
    /\ ~panicked
    /\ fc.pc # "idle"
    /\ \E h \in Hosts : fc.workers[h] > 0
    /\ ~oDone
    /\ oDone' = TRUE
    /\ srvChClosed' = TRUE
    /\ UNCHANGED <<srvCh, panicked, fc, engineRest, boot, qx, more>>

LifecycleNext ==
    \/ FCFetch
    \/ \E i \in 1..(NumSources * MaxLines) : FCProbe(i)
    \/ FCChecked
    \/ FCSend
    \/ FCUnwind
    \/ FCTick
    \/ FCRunRecv
    \/ FCWorkerCloses

LifecycleSpec == LifecycleInit /\ [][LifecycleNext]_vars

LifecycleFairSpec == LifecycleSpec /\ WF_vars(LifecycleNext)

\* ------------------------------------------------------------ start of Run
\* Worker.Run from its first statement to the range loop, for every way of
\* leaving options unset.  An int option is 0 (unset) or Custom, Strategy is
\* "" or one of the two names, Sources is a nil map, an empty map or a map
\* with links, TestTarget is "" or a URL.
Custom == 7          \* a value given by the user, none of the defaults

\* the `default` tags of the Worker fields
Defaults == [Interval |-> 120, Port |-> 8080, Workers |-> 100,
             StatInterval |-> 2, Strategy |-> "minimal", Timeout |-> 10]

\* the fields tagged validate:"required", in declaration order
Required == <<"Sources", "TestTarget">>

Options ==
    [Interval : {0, Custom}, Port : {0, Custom}, Workers : {0, Custom},
     StatInterval : {0, Custom}, Strategy : {""} \cup Strategies,
     Timeout : {0, Custom}, Sources : {"nil", "empty", "set"},
     TestTarget : {"", "url"}]

\* reflect.Value.IsZero of field f
IsZero(w, f) ==
    CASE f = "Sources"    -> w.Sources = "nil"
      [] f = "TestTarget" -> w.TestTarget = ""
      [] f = "Strategy"   -> w.Strategy = ""
      [] OTHER            -> w[f] = 0

\* mutant of validate: only the first required field is looked at
validateFirstOnly(w) == IsZero(w, Required[1])

\* validate(w): TRUE when it prints "Field ... is required" and calls
\* os.Exit(0)
validate(w) == \E i \in DOMAIN Required : IsZero(w, Required[i])

setDefaultValues(w) ==
    [f \in DOMAIN w |->
       IF f \in DOMAIN Defaults /\ IsZero(w, f) THEN Defaults[f] ELSE w[f]]

\* the goroutines Run starts before its range loop, in order
Background ==
    <<"listenAndServe", "fetchAndCheck", "updateStat", "sendStatistics">>

engineAll == <<srvCh, srvChClosed, oDone, panicked, engineRest>>

BootInit ==
    /\ InitEngine
    /\ good = 0
    /\ strategy = "minimal"
    /\ fc = Idle
    /\ qx = Idle
    /\ MoreIdle
    /\ boot \in [pc : {"make"}, w : Options, chanCap : {0}, started : {<<>>},
                 shifted : {FALSE}]

\* w.targets, w.stat, then the three make(chan ...): srvCh gets the buffer
\* w.Workers has at this point
BootMake ==
    /\ boot.pc = "make"
    /\ boot' = [boot EXCEPT !.pc = "validate", !.chanCap = boot.w.Workers]
    /\ UNCHANGED <<engineAll, fc, qx, more>>

BootValidate ==
    /\ boot.pc = "validate"
    /\ boot' = [boot EXCEPT !.pc = IF validate(boot.w) THEN "exited"
                                   ELSE "defaults"]
    /\ UNCHANGED <<engineAll, fc, qx, more>>

BootDefaults ==
    /\ boot.pc = "defaults"
    /\ boot' = [boot EXCEPT !.pc = "go", !.w = setDefaultValues(boot.w)]
    /\ UNCHANGED <<engineAll, fc, qx, more>>

\* the four go statements, one after the other, then the range loop
BootGo ==
    /\ boot.pc = "go"
    /\ LET n == Len(boot.started) + 1 IN
         boot' = [boot EXCEPT !.started = Append(@, Background[n]),
                              !.pc = IF n = Len(Background) THEN "range"
                                     ELSE "go"]
    /\ UNCHANGED <<engineAll, fc, qx, more>>

\* a handleServer goroutine takes targets from the queue: Run starts it in the
\* range loop for a Server that fetchAndCheck has sent
BootShift ==
    /\ boot.pc = "range"
    /\ \E i \in DOMAIN boot.started : boot.started[i] = "fetchAndCheck"
    /\ ~boot.shifted
    /\ boot' = [boot EXCEPT !.shifted = TRUE]
    /\ UNCHANGED <<engineAll, fc, qx, more>>

BootNext == BootMake \/ BootValidate \/ BootDefaults \/ BootGo \/ BootShift

BootSpec == BootInit /\ [][BootNext]_vars

\* ------------------------------------------------------------ queue alone
\* shift and retrigger applied to a queue of any content: qx.q is w.targets
\* before the calls, qx.sp the outcome of shift(n) followed by retrigger(u),
\* qx.ps that of retrigger(u) followed by shift(n), qx.sh that of shift(n)
\* alone; an outcome is the returned batch and the queue left behind.
MaxLen  == 3         \* items of the queue
NumURLs == 2         \* distinct target URLs

URLs == 1..NumURLs

Queues == UNION {[1..n -> URLs] : n \in 0..MaxLen}

None == [items |-> <<>>, rest |-> <<>>, done |-> FALSE]

QueueInit ==
    /\ InitEngine
    /\ good = 0
    /\ strategy = "minimal"
    /\ boot = Idle
    /\ fc = Idle
    /\ MoreIdle
    /\ qx \in [pc : {"run"}, q : Queues, n : 0..(MaxLen + 1), u : URLs,
               sp : {None}, ps : {None}, sh : {None}]

\* items := w.shift(n); w.retrigger(u)
QShiftPush ==
    /\ qx.pc = "run"
    /\ ~qx.sp.done
    /\ LET r == shift(qx.q, qx.n) IN
         qx' = [qx EXCEPT !.sp = [items |-> r.items,
                                  rest |-> retrigger(r.rest, qx.u),
                                  done |-> TRUE]]
    /\ UNCHANGED <<engineAll, boot, fc, more>>

\* w.retrigger(u); items := w.shift(n)
QPushShift ==
    /\ qx.pc = "run"
    /\ ~qx.ps.done
    /\ LET r == shift(retrigger(qx.q, qx.u), qx.n) IN
         qx' = [qx EXCEPT !.ps = [items |-> r.items, rest |-> r.rest,
                                  done |-> TRUE]]
    /\ UNCHANGED <<engineAll, boot, fc, more>>

\* items := w.shift(n)
QShift ==
    /\ qx.pc = "run"
    /\ ~qx.sh.done
    /\ LET r == shift(qx.q, qx.n) IN
         qx' = [qx EXCEPT !.sh = [items |-> r.items, rest |-> r.rest,
                                  done |-> TRUE]]
    /\ UNCHANGED <<engineAll, boot, fc, more>>

QueueNext == QShiftPush \/ QPushShift \/ QShift

QueueSpec == QueueInit /\ [][QueueNext]_vars
\* ------------------------------------------------------------ broadcast
\* sendStatistics, updateStat, the tasks that publish on stsCh and timCh, and
\* handleMessages, which receives from the unbuffered broadcast channel and
\* writes to the websocket clients.  bc.w holds the options after
\* setDefaultValues, bc.rlocked says that sendStatistics holds the read lock of
\* Stat.m, bc.left and bc.slept count the seconds of its time.Sleep.
MaxUpdates == 2      \* updates the per-proxy tasks have to publish

\* the option settings Run accepts, with only StatInterval and Timeout varied
BcOptions ==
    {setDefaultValues(o) :
        o \in {x \in Options : /\ ~validate(x)
                               /\ x.Sources = "set"
                               /\ x.Interval = 0 /\ x.Port = 0
                               /\ x.Workers = 0 /\ x.Strategy = ""}}

bcRest == <<engineAll, boot, fc, qx, lb, mg>>

BroadcastInit ==
    /\ InitEngine
    /\ good = 0
    /\ strategy = "minimal"
    /\ boot = Idle /\ fc = Idle /\ qx = Idle /\ lb = Idle /\ mg = Idle
    /\ bc \in [pc : {"run"}, w : BcOptions, ss : {"rlock"}, rlocked : {FALSE},
               left : {0}, slept : {0}, rx : {"recv"}, us : {"select"},
               todo : {MaxUpdates}, servers : {0}, stamps : {0}]

\* w.stat.m.RLock(); p, _ := json.Marshal(Payload{"stat", w.stat})
BSLock ==
    /\ bc.pc = "run"
    /\ bc.ss = "rlock"
    /\ bc' = [bc EXCEPT !.ss = "send", !.rlocked = TRUE]
    /\ UNCHANGED bcRest

\* broadcast <- p: a rendezvous with the receive of handleMessages
BSSend ==
    /\ bc.pc = "run"
    /\ bc.ss = "send"
    /\ bc.rx = "recv"
    /\ bc' = [bc EXCEPT !.ss = "runlock", !.rx = "write"]
    /\ UNCHANGED bcRest

\* w.stat.m.RUnlock(); time.Sleep(time.Duration(w.Timeout) * time.Second)
BSUnlock ==
    /\ bc.pc = "run"
    /\ bc.ss = "runlock"
    /\ bc' = [bc EXCEPT !.ss = "sleep", !.rlocked = FALSE,
                        !.left = bc.w.Timeout, !.slept = 0]
    /\ UNCHANGED bcRest

\* one second of the sleep passes
BSTick ==
    /\ bc.pc = "run"
    /\ bc.ss = "sleep"
    /\ bc.left > 0
    /\ bc' = [bc EXCEPT !.left = @ - 1, !.slept = @ + 1]
    /\ UNCHANGED bcRest

\* the sleep is over: the for loop of sendStatistics starts again
BSWake ==
    /\ bc.pc = "run"
    /\ bc.ss = "sleep"
    /\ bc.left = 0
    /\ bc' = [bc EXCEPT !.ss = "rlock"]
    /\ UNCHANGED bcRest

\* handleMessages has written msg to every client and receives again; with a
\* client that does not read, WriteMessage takes as long as the client likes
BRWritten ==
    /\ bc.pc = "run"
    /\ bc.rx = "write"
    /\ bc' = [bc EXCEPT !.rx = "recv"]
    /\ UNCHANGED bcRest

\* a task sends on stsCh or timCh: a rendezvous with updateStat's select
BTSend(ch) ==
    /\ bc.pc = "run"
    /\ bc.todo > 0
    /\ bc.us = "select"
    /\ bc' = [bc EXCEPT !.todo = @ - 1,
                        !.us = IF ch = "stsCh" THEN "addServer"
                               ELSE "addTimestamp"]
    /\ UNCHANGED bcRest

\* addServer / addTimestamp: s.m.Lock(), the update, s.m.Unlock().  Lock
\* waits while a reader holds the lock.
BUApply ==
    /\ bc.pc = "run"
    /\ bc.us \in {"addServer", "addTimestamp"}
    /\ ~bc.rlocked
    /\ bc' = [bc EXCEPT !.us = "select",
                        !.servers = IF bc.us = "addServer" THEN @ + 1 ELSE @,
                        !.stamps = IF bc.us = "addTimestamp" THEN @ + 1 ELSE @]
    /\ UNCHANGED bcRest

BroadcastNext ==
    \/ BSLock
    \/ BSSend
    \/ BSUnlock
    \/ BSTick
    \/ BSWake
    \/ BRWritten
    \/ \E ch \in {"stsCh", "timCh"} : BTSend(ch)
    \/ BUApply

BroadcastSpec == BroadcastInit /\ [][BroadcastNext]_vars

\* ------------------------------------------------------------ pkg/wlpb: requests
\* The weighted balancer of pkg/wlpb under concurrent Balancer.Request calls.
\* lb.srv are the Servers of b.alive as checkProxies left them (one successful
\* probe each), lb.call the callers: each runs Request MaxCalls times, a
\* Request being NextServer, then RegisterStart, the HTTP exchange and
\* RegisterFinish inside makeRequest.  lb.toggle is toggleSortProxies mod 2.
NumLbServers == 2    \* servers in b.alive
NumCallers   == 2    \* goroutines calling Balancer.Request
LbRequests   == 2    \* Balancer.Requests
MaxLatency   == 2    \* latencies measured, in milliseconds (1..MaxLatency)
MaxCalls     == 2    \* Request calls of one caller

LbServers == 1..NumLbServers
Callers   == 1..NumCallers

RECURSIVE Prod(_, _)
Prod(f, S) ==
    IF S = {} THEN 1
    ELSE LET x == CHOOSE y \in S : TRUE IN f[x] * Prod(f, S \ {x})

\* math.Round(a / b) for a >= 0, b > 0: halves go away from zero
Round(a, b) == (2 * a + b) \div (2 * b)

Max(a, b) == IF a >= b THEN a ELSE b

\* computeWeight: s.Weight = 1.0 / float64(s.Latency), here times the product
\* of all latencies so that the weights are integers with the same ratios
Weight(sv, s) == Prod([t \in LbServers |-> sv[t].Latency], LbServers \ {s})

\* computeWeight's return value: the total of the weights of the servers in S
RECURSIVE computeWeight(_, _)
computeWeight(sv, S) ==
    IF S = {} THEN 0
    ELSE LET x == CHOOSE y \in S : TRUE IN
           Weight(sv, x) + computeWeight(sv, S \ {x})

\* computeCapacity(requests, servers)
lbComputeCapacity(requests, sv) ==
    LET totalWeight == computeWeight(sv, LbServers) IN
      [s \in LbServers |->
         [sv[s] EXCEPT !.Capacity =
            IF sv[s].Limit > 0 THEN sv[s].Limit
            ELSE Max(Round(Weight(sv, s) * requests, totalWeight), 1)]]

\* sortAliveProxies then bestServer: the first server in sorted order with
\* Capacity > Requests, 0 for nil.  The order is by falling weight when the
\* toggle is even, by rising weight when it is odd; sort.Slice is not stable,
\* so servers of equal weight come in any order.
bestServer(sv, toggle) ==
    LET free == {s \in LbServers : sv[s].Capacity > sv[s].Requests}
        Before(s, t) == IF toggle = 0 THEN Weight(sv, s) > Weight(sv, t)
                        ELSE Weight(sv, s) < Weight(sv, t)
    IN  IF free = {} THEN {0}
        ELSE {s \in free : \A t \in free : ~Before(t, s)}

lbRest == <<engineAll, boot, fc, qx, bc, mg>>

LbInit ==
    /\ InitEngine
    /\ good = 0
    /\ strategy = "minimal"
    /\ boot = Idle /\ fc = Idle /\ qx = Idle /\ bc = Idle /\ mg = Idle
    /\ lb \in [pc : {"run"}, toggle : {0},
               srv : [LbServers -> [Latency : 1..MaxLatency, Limit : {0},
                                    Capacity : {0}, Requests : {0},
                                    Positive : {1}, Negative : {0}]],
               call : {[c \in Callers |->
                          [pc |-> "next", s |-> 0, left |-> MaxCalls]]}]

\* s := b.NextServer(), under b.m and every server's lock; nil ends Request
LbNextServer(c) ==
    /\ lb.pc = "run"
    /\ lb.call[c].pc = "next"
    /\ lb.call[c].left > 0
    /\ LET sv == lbComputeCapacity(LbRequests, lb.srv) IN
         \E bs \in bestServer(sv, lb.toggle) :
            lb' = [lb EXCEPT !.srv = sv,
                             !.toggle = 1 - @,
                             !.call[c] = IF bs = 0
                                         THEN [pc |-> "next", s |-> 0,
                                               left |-> @.left - 1]
                                         ELSE [@ EXCEPT !.pc = "start",
                                                        !.s = bs]]
    /\ UNCHANGED lbRest

\* makeRequest: startedAt = s.RegisterStart()
LbRegisterStart(c) ==
    /\ lb.pc = "run"
    /\ lb.call[c].pc = "start"
    /\ lb' = [lb EXCEPT !.srv[lb.call[c].s].Requests = @ + 1,
                        !.call[c].pc = "finish"]
    /\ UNCHANGED lbRest

\* makeRequest: the exchange ends with or without error after l milliseconds,
\* then the deferred s.RegisterFinish(startedAt, err)
LbRegisterFinish(c, err, l) ==
    /\ lb.pc = "run"
    /\ lb.call[c].pc = "finish"
    /\ LET s == lb.call[c].s IN
         lb' = [lb EXCEPT
                  !.srv[s] = [@ EXCEPT
                     !.Positive = IF err THEN @ ELSE @ + 1,
                     !.Negative = IF err THEN @ + 1 ELSE @,
                     !.Limit = IF err THEN lb.srv[s].Requests - 1 ELSE @,
                     !.Requests = @ - 1,
                     !.Latency = l],
                  !.call[c] = [pc |-> "next", s |-> 0, left |-> @.left - 1]]
    /\ UNCHANGED lbRest

LbNext ==
    \/ \E c \in Callers : LbNextServer(c)
    \/ \E c \in Callers : LbRegisterStart(c)
    \/ \E c \in Callers : \E err \in BOOLEAN : \E l \in 1..MaxLatency :
          LbRegisterFinish(c, err, l)

LbSpec == LbInit /\ [][LbNext]_vars

\* ------------------------------------------------------------ pkg/wlpb: merge
\* The probe cycles of the weighted balancer: fetchProxies, checkProxies and
\* merge, with requests served in between.  A URL is the pair of the host it
\* names and the pointer url.Parse returned for it: Go compares two *url.URL
\* by pointer, and the records here are equal exactly when the pointers are.
\* mg.lines is what the listings hold in this cycle, mg.up the hosts whose
\* probe succeeds.  checkProxies appends to alive in the order in which the
\* probes end; the order is taken to be that of the listing, since merge
\* treats every entry alike.
MaxMgCycles == 2     \* probe cycles of the balancer
MaxUses     == 1     \* requests served between two cycles

MgLines == UNION {[1..n -> Hosts] : n \in 0..MaxLines}

\* the Server checkProxies builds for a proxy and probes successfully with
\* makeRequest: one positive request, latency l
ProbedServer(u, l) ==
    [URL |-> u, Latency |-> l, Limit |-> 0, Positive |-> 1, Negative |-> 0]

\* the loop of merge from the i-th new server on
RECURSIVE mergeFrom(_, _, _)
mergeFrom(alive, s, i) ==
    IF i > Len(s) THEN <<>>
    ELSE LET same == {j \in DOMAIN alive : alive[j].URL = s[i].URL} IN
           <<IF same = {} THEN s[i]
             ELSE alive[CHOOSE j \in same : \A k \in same : j <= k]>>
           \o mergeFrom(alive, s, i + 1)

merge(alive, s) == mergeFrom(alive, s, 1)

mgRest == <<engineAll, boot, fc, qx, bc, lb>>

MgInit ==
    /\ InitEngine
    /\ good = 0
    /\ strategy = "minimal"
    /\ boot = Idle /\ fc = Idle /\ qx = Idle /\ bc = Idle /\ lb = Idle
    /\ mg \in [pc : {"fetch"}, cycle : {1}, nextPtr : {1}, proxies : {<<>>},
               alive : {<<>>}, uses : {0}]

\* b.fetchProxies(): every line is parsed into a URL of its own;
\* slices.Contains compares the pointers, so no line is left out
MgFetch(lines) ==
    /\ mg.pc = "fetch"
    /\ mg' = [mg EXCEPT
                !.pc = "check",
                !.proxies = [i \in DOMAIN lines |->
                               [host |-> lines[i], ptr |-> mg.nextPtr + i - 1]],
                !.nextPtr = @ + Len(lines)]
    /\ UNCHANGED mgRest

\* b.checkProxies(): nothing to do without proxies; else every proxy is
\* probed, the servers whose probe succeeded are collected and merged
MgCheck(up, l) ==
    /\ mg.pc = "check"
    /\ LET ok == {i \in DOMAIN mg.proxies : mg.proxies[i].host \in up}
           RECURSIVE pick(_)
           pick(i) == IF i > Len(mg.proxies) THEN <<>>
                      ELSE (IF i \in ok
                            THEN <<ProbedServer(mg.proxies[i], l)>>
                            ELSE <<>>) \o pick(i + 1)
       IN  mg' = [mg EXCEPT !.pc = "serve", !.uses = 0,
                            !.alive = IF mg.proxies = <<>> THEN @
                                      ELSE merge(@, pick(1))]
    /\ UNCHANGED mgRest

\* a request through alive server i between two cycles: RegisterStart and
\* RegisterFinish change its counters
MgUse(i, err, l) ==
    /\ mg.pc = "serve"
    /\ mg.uses < MaxUses
    /\ i \in DOMAIN mg.alive
    /\ mg' = [mg EXCEPT
                !.uses = @ + 1,
                !.alive[i] = [@ EXCEPT
                    !.Positive = IF err THEN @ ELSE @ + 1,
                    !.Negative = IF err THEN @ + 1 ELSE @,
                    !.Limit = IF err THEN 0 ELSE @,
                    !.Latency = l]]
    /\ UNCHANGED mgRest

\* <-ticker.C
MgTick ==
    /\ mg.pc = "serve"
    /\ mg.cycle < MaxMgCycles
    /\ mg' = [mg EXCEPT !.pc = "fetch", !.cycle = @ + 1]
    /\ UNCHANGED mgRest

MgNext ==
    \/ \E lines \in MgLines : MgFetch(lines)
    \/ \E up \in SUBSET Hosts : \E l \in 1..MaxLatency : MgCheck(up, l)
    \/ \E i \in 1..MaxLines : \E err \in BOOLEAN : \E l \in 1..MaxLatency :
          MgUse(i, err, l)
    \/ MgTick

MgSpec == MgInit /\ [][MgNext]_vars

\* ------------------------------------------------------------ observations
Occ(q, t) == Cardinality({i \in DOMAIN q : q[i] = t})

RECURSIVE SumOver(_, _)
SumOver(f, S) ==
    IF S = {} THEN 0
    ELSE LET x == CHOOSE y \in S : TRUE IN f[x] + SumOver(f, S \ {x})

\* pcs at which a processTarget goroutine still owes its target a delivery
\* or a push back
HoldingPcs == {"start", "send1", "req", "finish", "retrigger", "handler"}

InQueue(t)  == Occ(targets, t)
InBatch(t)  == SumOver([s \in Servers |-> Occ(hs[s].batch, t)], Servers)
InFlight(t) == SumOver([s \in Servers |->
                  Cardinality({k \in tasks[s] : k.t = t /\ k.pc \in HoldingPcs})],
                  Servers)
Delivered   == SumOver(handled, Targets)

\* completion times stamped by a task or received by updateStat, not yet in
\* Stat.timestamps
PendingStamps ==
    SumOver([s \in Servers |-> Cardinality({k \in tasks[s] : k.pc = "timsend"})],
            Servers)
    + (IF us.pc = "addTimestamp" THEN 1 ELSE 0)

NoTargetHeld ==
    /\ targets = <<>>
    /\ \A s \in Servers : hs[s].batch = <<>>
    /\ \A t \in Targets : InFlight(t) = 0

AllFailed(o) == Len(o) = 5 /\ \A i \in 1..5 : ~o[i]

\* ------------------------------------------------------------ claims

\* C1: each target of the initial list is passed to the handler at most once,
\* a delivered target is nowhere in the queue, a batch or a task any more, and
\* the queue grows by a target only through a task whose request failed.
C1_DeliveredOnce ==
    \A t \in Targets :
       /\ handled[t] <= 1
       /\ handled[t] = 1 => InQueue(t) + InBatch(t) + InFlight(t) = 0

C1_PushOnlyOnFailure ==
    \A t \in Targets :
       Occ(targets', t) > Occ(targets, t) =>
          \E s \in Servers : \E k \in tasks[s] :
             k.t = t /\ k.pc = "retrigger" /\ k.err

C1_AtMostOnce == []C1_DeliveredOnce /\ [][C1_PushOnlyOnFailure]_vars

\* a run with a retry and a disabled proxy in which every target was delivered
C1_Witness ==
    /\ \A t \in Targets : handled[t] = 1
    /\ \E s \in Servers : srv[s].Negative > 0 /\ srv[s].Disabled > 0

\* C4: srvCh is closed only when len(timestamps) = Targets, a timestamp is
\* recorded only for a handler call that has returned, and when Run has
\* returned the handler has completed for every target.
C4_NoEarlyReturn ==
    /\ srvChClosed => Len(timestamps) = NumTargets
    /\ Len(timestamps) + PendingStamps <= Delivered
    /\ runPc = "returned" => \A t \in Targets : handled[t] >= 1

C4_Witness == runPc = "returned" /\ \E s \in Servers : srv[s].Negative > 0

\* C6: no target is lost or duplicated: for every target, its occurrences in
\* the queue, in shifted batches, in flight and delivered add up to one, so the
\* four groups add up to targets_total.
C6_Conservation ==
    /\ \A t \in Targets : InQueue(t) + InBatch(t) + InFlight(t) + handled[t] = 1
    /\ Len(targets)
       + SumOver([s \in Servers |-> Len(hs[s].batch)], Servers)
       + SumOver([t \in Targets |-> InFlight(t)], Targets)
       + Delivered = NumTargets

\* a proxy disabled in the middle of a batch, after a failure was pushed back
C6_Witness ==
    \E s \in Servers :
       /\ srv[s].Disabled > 0
       /\ hs[s].pc = "spawn"
       /\ targets # <<>>

\* C10: 0 <= Requests <= Capacity for every proxy entry.
C10_RequestsWithinCapacity ==
    \A s \in Servers : 0 <= srv[s].Requests /\ srv[s].Requests <= srv[s].Capacity

C10_Witness ==
    \E s \in Servers : srv[s].Capacity >= 2 /\ srv[s].Requests = srv[s].Capacity

\* C5 as stated: the count of timestamps never decreases, never exceeds
\* targets_total, and is targets_total exactly when nothing is queued, held in
\* a batch or in flight.  "Exactly when" is read in the claim's favour: the
\* count may be complete only if no task still owes its target, and must be
\* complete once the queue and the batches are empty and no processTarget
\* goroutine is left at all.
C5_Original ==
    /\ Len(timestamps) <= NumTargets
    /\ Len(timestamps) = NumTargets => NoTargetHeld
    /\ (/\ targets = <<>>
        /\ \A s \in Servers : hs[s].batch = <<>> /\ tasks[s] = {})
       => Len(timestamps) = NumTargets

\* C5 amended: the count never decreases and never exceeds targets_total;
\* when it is targets_total nothing is queued, in a batch or in flight; and
\* when nothing is queued, in a batch or in flight, the count is targets_total
\* less the completion times still on their way to Stat.timestamps.
C5_Bounded ==
    /\ Len(timestamps) <= NumTargets
    /\ Len(timestamps) = NumTargets => NoTargetHeld
    /\ NoTargetHeld => Len(timestamps) + PendingStamps = NumTargets

C5_Monotone ==
    /\ Len(timestamps') >= Len(timestamps)
    /\ SubSeq(timestamps', 1, Len(timestamps)) = timestamps

C5_Amended == []C5_Bounded /\ [][C5_Monotone]_vars

\* nothing is held anywhere, no task is left, and a timestamp is still missing
C5_Witness ==
    /\ targets = <<>>
    /\ \A s \in Servers : hs[s].batch = <<>> /\ tasks[s] = {}
    /\ Len(timestamps) = NumTargets - 1
    /\ us.pc = "addTimestamp"

\* C7 as stated: once Disabled is set, no task calls start() on the proxy
\* (start() is the only step that raises Requests).
C7_Original ==
    [][\A s \in Servers :
          srv[s].Disabled > 0 => srv'[s].Requests <= srv[s].Requests]_vars

\* C7 amended: once Disabled is set, the proxy's worker passes no further
\* batch-boundary check: it never again moves on to shift a batch, and a
\* worker that has exited stays out; and no request through the proxy returns
\* a body any more.  (Targets of a batch admitted by a check made before the
\* disable are still started on the proxy; their requests fail.)
C7_Amended ==
    [][\A s \in Servers :
          /\ (srv[s].Disabled > 0 /\ hs'[s].pc = "shift") => hs[s].pc = "shift"
          /\ hs[s].pc = "done" => hs'[s].pc = "done" /\ hs'[s].batch = <<>>
          /\ srv[s].cancelled =>
                \A k \in tasks'[s] :
                   (k.pc = "finish" /\ ~k.err) => k \in tasks[s]]_vars

\* a worker that left at a batch boundary because of the disable, while a
\* task of its last batch has yet to call start() on the proxy
C7_Witness ==
    \E s \in Servers :
       /\ srv[s].Disabled > 0
       /\ hs[s].pc = "done"
       /\ ~srvChClosed
       /\ \E k \in tasks[s] : k.pc = "start"

\* C8 as stated: whenever Disabled is set, the five most recently finished
\* requests of the proxy all failed (so at least five have finished).
C8_OnlyFiveInRow ==
    \A s \in Servers : srv[s].Disabled > 0 => AllFailed(outcomes[s])

\* C9: when the last five finish() calls of a proxy all reported a failure the
\* proxy is disabled and its context cancelled, and Disabled, once set, stays
\* set (and the context cancelled).
C9_Disabled ==
    \A s \in Servers :
       AllFailed(outcomes[s]) => srv[s].Disabled > 0 /\ srv[s].cancelled

C9_Latched ==
    \A s \in Servers :
       srv[s].Disabled > 0 => srv'[s].Disabled > 0 /\ srv'[s].cancelled

C9_FiveFailuresDisable == []C9_Disabled /\ [][C9_Latched]_vars

\* five failures in a row on a proxy that had served a target before
C9_Witness ==
    \E s \in Servers :
       /\ AllFailed(outcomes[s])
       /\ srv[s].Positive >= 1
       /\ srv[s].Disabled = 1

\* C2: with a proxy that keeps succeeding, under fair scheduling, every target
\* is eventually passed to the handler, and exactly once.
C2_EventuallyHandledOnce ==
    /\ <>(\A t \in Targets : handled[t] = 1)
    /\ [](\A t \in Targets : handled[t] <= 1)

\* every target delivered, the reliable proxy took part and another proxy
\* failed a request on the way
C2_Witness ==
    /\ good # 0
    /\ \A t \in Targets : handled[t] = 1
    /\ srv[good].Positive >= 1
    /\ \E s \in Servers : s # good /\ srv[s].Negative >= 1 /\ srv[s].Positive >= 1

\* C3 as stated: under fair scheduling, once len(timestamps) = Targets, srvCh
\* is eventually closed, the range loop of Run ends and Run returns.
C3_RunReturns ==
    (Len(timestamps) = NumTargets) ~> (srvChClosed /\ runPc = "returned")

\* What holds instead: srvCh is eventually closed, and Run returns unless the
\* process has crashed on a send to the closed srvCh.
C3_ReturnsUnlessCrash ==
    (Len(timestamps) = NumTargets) ~>
        (srvChClosed /\ (runPc = "returned" \/ panicked))


\* C11: srvCh is closed exactly once.  It is closed iff the sync.Once has
\* fired; the step that closes it is the one first call of Do, made by a worker
\* that saw len(timestamps) = Targets; a closed srvCh stays closed; and no step
\* of a handleServer goroutine panics, so the calls of Do by the other workers
\* that see completion are no-ops.
C11_ClosedByOnce == srvChClosed = oDone

C11_CloseStep ==
    /\ srvChClosed => srvChClosed'
    /\ (srvChClosed' /\ ~srvChClosed) =>
          /\ ~oDone /\ oDone'
          /\ Len(timestamps) = NumTargets
          /\ \E s \in Servers : hs[s].pc = "allproc" /\ hs'[s].pc = "done"
    /\ (panicked' /\ ~panicked) => hs' = hs

C11_ClosedExactlyOnce == []C11_ClosedByOnce /\ [][C11_CloseStep]_vars

\* two workers of enabled proxies have both left through the completion
\* branch: one closed srvCh, for the other Do was a no-op
C11_Witness ==
    /\ srvChClosed
    /\ ~panicked
    /\ \A s \in Servers : hs[s].pc = "done" /\ srv[s].Disabled = 0

\* C12 as stated: under the minimal strategy the target requests in flight on
\* all proxies together (the sum of the Requests counters) never exceed the
\* Workers option.
C12_GlobalCeiling ==
    strategy = "minimal" =>
       SumOver([s \in Servers |-> srv[s].Requests], Servers) <= Workers

\* C13 as stated: under the auto strategy a proxy that sustains m concurrent
\* probe requests and fails as soon as m + 1 are concurrent gets capacity m.
C13_CapacityIsCeiling ==
    strategy = "auto" =>
       \A i \in DOMAIN fc.alive :
          fc.alive[i].Capacity = fc.ceil[fc.alive[i].URL]

\* C14: a listing that cannot be fetched or answers with another status than
\* 200 contributes no candidate and a listing that answers 200 contributes
\* every line of its body; the fetch step raises nothing and hands over to the
\* check; every candidate is probed before the publishing starts; the alive
\* candidates of the cycle are those with a capacity > 0, each is sent on
\* srvCh before the cycle ends; and a panic comes from a closed srvCh only.
OkLines(h) ==
    SumOver([i \in Sources |->
               IF fc.links[i].status = "ok" THEN Occ(fc.links[i].body, h) ELSE 0],
            Sources)

Published(h) ==
    Cardinality({i \in DOMAIN fc.sent : fc.sent[i].URL = h})
    + Cardinality({i \in DOMAIN fc.alive : fc.alive[i].URL = h})

C14_Candidates ==
    fc.pc \in {"check", "publish", "panic"} =>
       \A h \in Hosts : Occ(fc.proxies, h) = OkLines(h)

C14_AllProbed ==
    fc.pc \in {"publish", "panic"} =>
       /\ fc.count = DOMAIN fc.proxies
       /\ \A h \in Hosts :
             Published(h) = IF computeCapacity(strategy, fc.ceil[h]) > 0
                            THEN OkLines(h) ELSE 0

C14_Step ==
    /\ (fc.pc = "fetch" /\ fc'.pc # "fetch") => (fc'.pc = "check" /\ ~panicked')
    /\ fc'.cycle > fc.cycle => fc.alive = <<>>
    /\ (fc'.pc = "panic" /\ fc.pc # "panic") => srvChClosed

C14_BadSourceSkipped ==
    /\ [](C14_Candidates /\ C14_AllProbed)
    /\ [][C14_Step]_vars

\* one listing answered 500 with a body, the other 200; the cycle has sent
\* every alive candidate of the good listing
C14_Witness ==
    /\ fc.pc = "publish"
    /\ fc.alive = <<>>
    /\ fc.sent # <<>>
    /\ ~srvChClosed
    /\ \E i, j \in Sources :
          /\ fc.links[i].status = "bad" /\ fc.links[i].body # <<>>
          /\ fc.links[j].status = "ok"

\* C16 as stated: a panic raised in a sub-step of a probe cycle is caught in
\* the loop of fetchAndCheck and never leaves the goroutine (an uncaught panic
\* ends the process).
C16_PanicCaught == ~panicked

\* C15: when Sources or TestTarget is unset, Run exits in validate: no
\* goroutine has been started, no target has been taken from the queue, the
\* defaults have not been applied, and the step after the make calls is the
\* exit.
RequiredMissing == boot.w.Sources = "nil" \/ boot.w.TestTarget = ""

C15_NothingStarted ==
    RequiredMissing =>
       /\ boot.started = <<>>
       /\ ~boot.shifted
       /\ boot.pc \in {"make", "validate", "exited"}

C15_ExitStep ==
    (RequiredMissing /\ boot.pc = "validate") => boot'.pc = "exited"

C15_FatalBeforeWork == []C15_NothingStarted /\ [][C15_ExitStep]_vars

\* Run has exited with the sources given and only the test target missing
C15_Witness ==
    /\ boot.pc = "exited"
    /\ boot.w.Sources = "set"
    /\ boot.w.TestTarget = ""

\* C17 as stated: disable() on a proxy that is already disabled changes
\* nothing of the proxy, the Disabled value of its snapshots included.
C17_DisableIdempotent ==
    \A s \in Servers :
       srv[s].Disabled > 0 =>
          /\ disable(srv[s]) = srv[s]
          /\ toMap(s, disable(srv[s])) = toMap(s, srv[s])

\* C18 as stated, a crash of the process excused: once a proxy is disabled,
\* the snapshot stored under its URL in Stat.Servers eventually has a
\* disabled value other than 0.
C18_DisabledShown ==
    \A s \in Servers :
       (srv[s].Disabled > 0) ~> (statServers[s].disabled > 0 \/ panicked)

\* C19: for a queue of at least n items, shift(n) followed by retrigger(u)
\* gives the same batch and leaves the same queue as retrigger(u) followed by
\* shift(n); this includes the queue of exactly n items.
C19_ShiftPushCommute ==
    (qx.sp.done /\ qx.ps.done /\ Len(qx.q) >= qx.n) =>
       /\ qx.sp.items = qx.ps.items
       /\ qx.sp.rest = qx.ps.rest

\* both orders applied to a queue of exactly n >= 1 items: the batch is the
\* whole queue and u alone is left
C19_Witness ==
    /\ qx.sp.done /\ qx.ps.done
    /\ qx.n >= 1
    /\ Len(qx.q) = qx.n
    /\ qx.ps.items = qx.q
    /\ qx.ps.rest = <<qx.u>>

Min(a, b) == IF a <= b THEN a ELSE b

\* C20: shift(n) returns the first min(n, len) items in order and leaves the
\* remaining items in order; on the empty queue the batch is empty, and a
\* queue of exactly n items is left empty.
C20_ShiftTakesFront ==
    qx.sh.done =>
       LET k == Min(qx.n, Len(qx.q)) IN
         /\ Len(qx.sh.items) = k
         /\ \A i \in 1..k : qx.sh.items[i] = qx.q[i]
         /\ Len(qx.sh.rest) = Len(qx.q) - k
         /\ \A i \in 1..(Len(qx.q) - k) : qx.sh.rest[i] = qx.q[k + i]
         /\ qx.q = <<>> => qx.sh.items = <<>>
         /\ Len(qx.q) = qx.n => qx.sh.rest = <<>>

\* shift(n) applied to a queue of exactly n >= 2 items
C20_Witness ==
    /\ qx.sh.done
    /\ qx.n >= 2
    /\ Len(qx.q) = qx.n
    /\ qx.sh.items = qx.q
    /\ qx.sh.rest = <<>>

\* C21: for every reachable list of processed timestamps and every instant
\* n from now on, rpm() is the number of timestamps ts with ts >= n - 60 s
\* (0 for the empty list).
C21_RpmCountsLastMinute ==
    \A n \in now..(now + Minute + NumTargets) :
        rpm(timestamps, n) =
            Cardinality({i \in DOMAIN timestamps : timestamps[i] >= n - Minute})

\* C26: the processed-timestamps list is non-decreasing in stored order.
C26_TimestampsOrdered ==
    \A i, j \in DOMAIN timestamps : i < j => timestamps[i] <= timestamps[j]

\* C22: probe GETs are counted in the proxy's counters: a proxy that passed
\* one minimal-strategy probe and then served one successful target (its only
\* finished request) has positive = 2, negative = 0 and is not disabled.
C22_ProbeCounted ==
    \A s \in Servers :
       (strategy = "minimal" /\ s <= probed /\ outcomes[s] = <<TRUE>>)
          => srv[s].Positive = 2 /\ srv[s].Negative = 0 /\ srv[s].Disabled = 0

\* C23: once proxy s is disabled, no start() snapshot of s is delivered to
\* the statistics owner any more, whenever the snapshot was taken.
C23_StartDelivered(s) ==
    \E k \in tasks[s] :
       /\ k.pc = "send1"
       /\ tasks'[s] = (tasks[s] \ {k}) \cup {[k EXCEPT !.pc = "req", !.sm = NoSm]}
       /\ statServers' = addServer(statServers, k.sm)

C23_Step == \A s \in Servers : srv[s].Disabled > 0 => ~C23_StartDelivered(s)

C23_NoStartSnapshotAfterDisable == [][C23_Step]_vars

\* C24: a disabled proxy has its context cancelled; every request through it
\* that is still in flight ends as a failure, the failure pushes the target
\* back at the tail of the queue, and under fair scheduling no such target
\* stays on the disabled proxy for ever.
C24_TokenFired == \A s \in Servers : srv[s].Disabled > 0 => srv[s].cancelled

C24_Step ==
    \A s \in Servers : \A k \in tasks[s] :
       (srv[s].cancelled /\ k \notin tasks'[s]) =>
          /\ k.pc = "req" =>
                [k EXCEPT !.pc = "finish", !.err = TRUE] \in tasks'[s]
          /\ (k.pc = "finish" /\ k.err) =>
                \E j \in tasks'[s] : j.t = k.t /\ j.pc = "retrigger"
          /\ k.pc = "retrigger" =>
                /\ Len(targets') = Len(targets) + 1
                /\ targets'[Len(targets')] = k.t
                /\ SubSeq(targets', 1, Len(targets)) = targets

C24_InFlightOnDisabled(s, t) ==
    srv[s].Disabled > 0 /\ \E k \in tasks[s] : k.t = t /\ k.pc = "req"

C24_CancelledRequeued ==
    /\ []C24_TokenFired
    /\ [][C24_Step]_vars
    /\ \A s \in Servers : \A t \in Targets :
          C24_InFlightOnDisabled(s, t) ~> (\A k \in tasks[s] : k.t # t)

\* a request is in flight on a proxy that another task's finish() has just
\* disabled, that task being about to push its own target back
C24_Witness ==
    \E s \in Servers : \E k, j \in tasks[s] :
       /\ srv[s].Disabled = 1 /\ srv[s].cancelled
       /\ k.pc = "req"
       /\ j.pc = "retrigger" /\ j.sm.disabled = 1

\* C25: a pushed target is placed at the tail.  After retrigger(u) on queue
\* q, what a shift returns followed by what it leaves is q in its old order
\* with u behind it: u comes out only after every item that was queued at the
\* moment of the push.
C25_PushedComesLast ==
    qx.pc = "run" /\ qx.ps.done =>
       LET out == qx.ps.items \o qx.ps.rest IN
         /\ Len(out) = Len(qx.q) + 1
         /\ SubSeq(out, 1, Len(qx.q)) = qx.q
         /\ out[Len(out)] = qx.u
         /\ Len(qx.ps.items) <= Len(qx.q) =>
               qx.ps.items = SubSeq(qx.q, 1, Len(qx.ps.items))

\* a target that is also queued already is pushed on a queue of two distinct
\* items and a shift of fewer items than are queued leaves it last
C25_Witness ==
    /\ qx.pc = "run" /\ qx.ps.done
    /\ Len(qx.q) = 2 /\ qx.q[1] # qx.q[2] /\ qx.u = qx.q[1]
    /\ qx.n = 1
    /\ qx.ps.items = <<qx.q[1]>>
    /\ qx.ps.rest = <<qx.q[2], qx.u>>

\* the number of start() and finish() calls made on the proxy when snapshot
\* sm was taken: start() raises requests, finish() lowers requests and raises
\* positive or negative, so every call raises this number by one
TakenAt(sm) == sm.requests + 2 * (sm.positive + sm.negative)

\* C27: the snapshots of one proxy reach the statistics owner in the order in
\* which they were taken: the snapshot stored for a proxy is only ever
\* replaced by one taken later.
C27_Step ==
    \A s \in Servers :
       statServers'[s] # statServers[s] =>
          TakenAt(statServers'[s]) > TakenAt(statServers[s])

C27_SnapshotsInOrder == [][C27_Step]_vars

\* C28: a re-probe cycle publishes only proxies no earlier cycle published:
\* in a later cycle a proxy URL that already has a worker is not sent on
\* srvCh again, and it gets no second worker.  Stated for listings in which
\* no proxy is listed twice, so that one cycle alone publishes no proxy twice.
C28_Step ==
    \A h \in Hosts :
       (fc.cycle > 1 /\ fc.workers[h] > 0 /\ \A g \in Hosts : OkLines(g) <= 1) =>
          /\ (fc.pc = "publish" /\ fc.alive # <<>> /\ Head(fc.alive).URL = h)
                => fc'.sent # Append(fc.sent, Head(fc.alive))
          /\ fc'.workers[h] = fc.workers[h]

C28_OnlyNewPublished == [][C28_Step]_vars

\* C29: the candidate set of one fetch holds each distinct proxy URL at most
\* once, however often its host:port line is listed, so a cycle probes each
\* distinct proxy once.
C29_CandidatesDistinct ==
    fc.pc \in {"check", "publish", "panic"} =>
       \A h \in Hosts : Occ(fc.proxies, h) <= 1

\* the first round of the auto calibration of proxy h in which a probe fails:
\* rounds of up to fc.ceil[h] concurrent probes pass
C30_FailingRound(h) == fc.ceil[h] + 1

\* the entries checkProxies has found alive so far, published or not
C30_Alive == fc.sent \o fc.alive

\* C30: under the auto strategy the capacity of a proxy is the size k of the
\* first round in which a probe failed when k > 1, and 0 when k = 1 (such a
\* proxy is not kept as alive).
C30_AutoCapacity ==
    strategy = "auto" /\ fc.pc \in {"check", "publish", "panic"} =>
       /\ \A i \in DOMAIN C30_Alive :
             LET e == C30_Alive[i] IN
               /\ C30_FailingRound(e.URL) > 1
               /\ e.Capacity = C30_FailingRound(e.URL)
       /\ fc.pc # "check" =>
             \A h \in Hosts :
                C30_FailingRound(h) = 1 =>
                   \A i \in DOMAIN C30_Alive : C30_Alive[i].URL # h

\* a proxy that sustains two concurrent probes got capacity 3 from the failing
\* round of three, and a listed proxy whose first probe failed was dropped
C30_Witness ==
    /\ strategy = "auto" /\ fc.pc = "publish"
    /\ \E h, g \in Hosts :
          /\ fc.ceil[h] = 2 /\ fc.ceil[g] = 0
          /\ OkLines(g) >= 1
          /\ \E i \in DOMAIN C30_Alive :
                C30_Alive[i].URL = h /\ C30_Alive[i].Capacity = 3
          /\ \A i \in DOMAIN C30_Alive : C30_Alive[i].URL # g

\* C31: only proxies whose computed capacity is > 0 are sent on srvCh; under
\* the minimal strategy every published proxy has capacity exactly 1 and a
\* proxy whose single probe failed is never published.
C31_PublishedAlive ==
    \A i \in DOMAIN fc.sent :
       LET e == fc.sent[i] IN
         /\ e.Capacity > 0
         /\ strategy = "minimal" => e.Capacity = 1 /\ fc.ceil[e.URL] >= 1

\* a whole cycle under the minimal strategy published a proxy with capacity 1
\* and left out a listed proxy whose probe failed
C31_Witness ==
    /\ strategy = "minimal" /\ fc.pc = "publish" /\ fc.alive = <<>>
    /\ \E h, g \in Hosts :
          /\ fc.ceil[g] = 0 /\ OkLines(g) >= 1
          /\ \E i \in DOMAIN fc.sent :
                fc.sent[i].URL = h /\ fc.sent[i].Capacity = 1
          /\ \A i \in DOMAIN fc.sent : fc.sent[i].URL # g

\* C32: finish(t0, err) lowers Requests by exactly 1, raises exactly one of
\* Positive (err == nil) and Negative (otherwise) by 1, records the outcome at
\* the ring position l5i, leaves Capacity alone and returns a snapshot of the
\* updated values.
C32_Step ==
    \A s \in Servers : \A k \in tasks[s] :
       (k.pc = "finish" /\ k \notin tasks'[s]) =>
          /\ srv'[s].Requests = srv[s].Requests - 1
          /\ srv'[s].Positive = srv[s].Positive + (IF k.err THEN 0 ELSE 1)
          /\ srv'[s].Negative = srv[s].Negative + (IF k.err THEN 1 ELSE 0)
          /\ srv'[s].l5[srv[s].l5i + 1] = ~k.err
          /\ \A i \in 1..5 : i # srv[s].l5i + 1 => srv'[s].l5[i] = srv[s].l5[i]
          /\ srv'[s].Capacity = srv[s].Capacity
          /\ \E j \in tasks'[s] :
                /\ j.t = k.t
                /\ j.sm = [url |-> s, disabled |-> srv'[s].Disabled,
                           requests |-> srv'[s].Requests,
                           positive |-> srv'[s].Positive,
                           negative |-> srv'[s].Negative]

C32_FinishEffect == [][C32_Step]_vars

\* a finish() has just returned the snapshot of a proxy that has by now both
\* succeeded and failed
C32_Witness ==
    \E s \in Servers : \E k \in tasks[s] :
       /\ k.pc \in {"handler", "retrigger"}
       /\ srv[s].Positive >= 1 /\ srv[s].Negative >= 1
       /\ k.sm.positive = srv[s].Positive /\ k.sm.negative = srv[s].Negative
       /\ k.sm.requests = srv[s].Requests

\* C33: srvCh is buffered with the effective Workers option (100 when the
\* option is left unset): once the defaults are applied, the buffer of the
\* channel Run made equals w.Workers.
C33_BufferIsWorkers ==
    boot.pc \in {"go", "range"} => boot.chanCap = boot.w.Workers

\* C34: the broadcast loop waits StatInterval seconds between two consecutive
\* broadcasts, whatever the Timeout option is: when sendStatistics wakes up
\* for its next round it has slept StatInterval seconds.
C34_Step ==
    (bc.pc = "run" /\ bc.ss = "sleep" /\ bc'.ss = "rlock")
       => bc.slept = bc.w.StatInterval

C34_SleepsStatInterval == [][C34_Step]_vars

\* C36: while sendStatistics waits for its payload to be received on the
\* broadcast channel, updateStat can apply the update it has received: a slow
\* receiver blocks neither updateStat nor the tasks that publish to it.
C36_UpdatesNotBlocked ==
    (bc.pc = "run" /\ bc.ss = "send" /\ bc.us \in {"addServer", "addTimestamp"})
       => ENABLED BUApply

\* C35: no send on srvCh happens after srvCh was closed: once a worker has
\* closed the channel, fetchAndCheck is neither about to send a proxy nor
\* blocked in a send, in this cycle or a later one.  Stated for listings in
\* which no proxy is listed twice.
C35_NoSendAfterClose ==
    (srvChClosed /\ fc.pc # "idle" /\ \A g \in Hosts : OkLines(g) <= 1) =>
       ~(fc.pc = "publish" /\ fc.alive # <<>>) /\ fc.pc # "panic"

\* C37: a per-proxy worker exits only when its proxy is disabled or when it
\* saw an empty batch together with global completion; with an empty batch and
\* fewer than Targets processed it goes round the loop again, and under fair
\* scheduling it then gets a batch or exits for one of the two reasons (or
\* the process has ended).
C37_Step ==
    \A s \in Servers :
       /\ (hs[s].pc # "done" /\ hs'[s].pc = "done") =>
             \/ hs[s].pc = "check" /\ srv[s].Disabled > 0
             \/ /\ hs[s].pc = "allproc" /\ hs[s].batch = <<>>
                /\ Len(timestamps) = NumTargets
       /\ (hs[s].pc = "allproc" /\ Len(timestamps) < NumTargets
             /\ hs'[s] # hs[s]) => hs'[s].pc = "check"
       /\ (hs[s].pc = "check" /\ srv[s].Disabled = 0 /\ hs'[s] # hs[s])
             => hs'[s].pc = "shift"

C37_KeepsPolling ==
    /\ [][C37_Step]_vars
    /\ \A s \in Servers :
          (hs[s].pc = "allproc" /\ Len(timestamps) < NumTargets)
             ~> (hs[s].pc \in {"spawn", "done"} \/ panicked)

\* an enabled worker has found the queue empty before completion, and a
\* target has been pushed back since
C37_Witness ==
    \E s \in Servers :
       /\ hs[s].pc = "allproc" /\ srv[s].Disabled = 0
       /\ Len(timestamps) < NumTargets
       /\ targets # <<>>

\* C38: in every fair execution each probe cycle with at least one candidate
\* terminates: the capacity of every candidate gets computed and the alive
\* proxies of the cycle are then all sent on srvCh; nothing is sent before
\* every candidate of the cycle has been probed.
C38_Step ==
    (fc.pc # "idle" /\ fc'.sent # fc.sent /\ fc'.sent # <<>>)
       => fc.count = DOMAIN fc.proxies

C38_Probed == fc.pc = "publish" /\ fc.count = DOMAIN fc.proxies

C38_CycleTerminates ==
    /\ [][C38_Step]_vars
    /\ (fc.pc = "check" /\ fc.proxies # <<>>) ~> (C38_Probed /\ fc.alive = <<>>)

\* what holds: every candidate gets probed, and the alive proxies are all sent
\* unless the send meets the closed channel
C38_TerminatesUnlessClosed ==
    /\ [][C38_Step]_vars
    /\ (fc.pc = "check" /\ fc.proxies # <<>>) ~> (C38_Probed \/ fc.pc = "panic")
    /\ (fc.pc = "check" /\ fc.proxies # <<>>)
          ~> ((C38_Probed /\ fc.alive = <<>>) \/ panicked)

\* C39: in the weighted balancer, under any interleaving of concurrent
\* Request calls every server keeps Requests <= Capacity: the slot NextServer
\* found free is still free when the request is registered on the server.
C39_WithinCapacity ==
    lb.pc = "run" => \A s \in LbServers : lb.srv[s].Requests <= lb.srv[s].Capacity

\* the hosts of the entries of a list of servers
MgHosts(servers) == {servers[i].URL.host : i \in DOMAIN servers}

\* C40: merge keeps, for every proxy URL that was alive before and is alive
\* again in the new probe result, the existing entry with its accumulated
\* counters; it adds entries for newly alive URLs and drops entries whose URL
\* is no longer alive.
C40_Step ==
    (mg.pc = "check" /\ mg'.pc = "serve" /\ mg.proxies # <<>>) =>
       /\ \A i \in DOMAIN mg.alive :
             mg.alive[i].URL.host \in MgHosts(mg'.alive) =>
                \E j \in DOMAIN mg'.alive :
                   /\ mg'.alive[j].URL.host = mg.alive[i].URL.host
                   /\ mg'.alive[j].Latency = mg.alive[i].Latency
                   /\ mg'.alive[j].Limit = mg.alive[i].Limit
                   /\ mg'.alive[j].Positive = mg.alive[i].Positive
                   /\ mg'.alive[j].Negative = mg.alive[i].Negative
       /\ \A j \in DOMAIN mg'.alive :
             mg'.alive[j].URL.host \in {mg.proxies[i].host : i \in DOMAIN mg.proxies}

C40_MergeKeepsEntries == [][C40_Step]_vars
====
